---------------------------- MODULE Spec2Model ----------------------------
(***************************************************************************)
(* A model of the PolicyEngine country service                             *)
(* (policyengine/country/country.py) and of the parametric reform builder  *)
(* (policyengine/country/openfisca/reforms.py).                            *)
(*                                                                         *)
(* Five specifications share the variables:                                *)
(*   SpecBuild    sequential create_microsimulations calls                 *)
(*   SpecRace     interleaved create_microsimulations calls                *)
(*   SpecWindows  population_reform and its latency windows                *)
(*   SpecCalc     calculate, the household walker                          *)
(*   SpecParam    parametric(...).modifier_fn on a parameter tree          *)
(***************************************************************************)
EXTENDS Integers, Sequences, FiniteSets, TLC

VARIABLES
    baseline_microsimulation,       \* self.baseline_microsimulation (0 is None)
    sims,                           \* the simulation objects built so far, by identity
    calls,                          \* history of completed create_microsimulations calls
    population_reform_recent_calls, \* self.population_reform_recent_calls
    last_reform_call,               \* what the last population_reform call saw and left
    thread,                         \* per-thread position and locals in create_microsimulations
    parameter_tree,                 \* the parameter tree's leaves: leaf -> year -> value
    last_modifier,                  \* what the last modifier_fn call did
    household,                      \* params["household"], the document calculate works on
    request                         \* the calculate request: the document as received,
                                    \* the simulation built for it, and how the call ended

vars == <<baseline_microsimulation, sims, calls, population_reform_recent_calls,
          last_reform_call, thread, parameter_tree, last_modifier, household, request>>

(***************************************************************************)
(* Bounds                                                                  *)
(***************************************************************************)
MaxCalls == 4          \* sequential create_microsimulations calls recorded
MaxThreads == 3        \* concurrent create_microsimulations calls
MaxReformCalls == 12   \* population_reform calls
MaxDuration == 2       \* elapsed seconds of one population_reform call
MaxSegLen == 4         \* characters in the first segment of a parameter path
MaxTailLen == 1        \* characters in the second segment of a parameter path
MaxValue == 1          \* values a parametric reform sets
FirstYear == 2013      \* the years the parameter tree is observed over
LastYear == 2040

None == 0

(***************************************************************************)
(* Request parameters: a flat dictionary; only its keys matter here.  A    *)
(* key is a sequence of tokens, so that "starts with baseline_" and        *)
(* "contains baseline_" are different questions.                           *)
(***************************************************************************)
ParamKeys ==
    { <<"tax_rate">>, <<"baseline_", "tax_rate">>, <<"x_", "baseline_", "y">> }

ParamDicts == SUBSET ParamKeys

\* the requests of the interleaved calls: one key each
SingleKeyDicts == { {k} : k \in ParamKeys }

\* PolicyReform(parameters, ...).edits_baseline: some key is prefixed baseline_
EditsBaseline(parameters) ==
    \E k \in parameters : k[1] = "baseline_"

\* what a simulation object was built from
DefaultBuilt == [policy |-> "default_reform", params |-> {}]
BaselineBuilt(parameters) == [policy |-> "policy_reform.baseline", params |-> parameters]
ReformBuilt(parameters) == [policy |-> "policy_reform.reform", params |-> parameters]

\* PolicyEngineCountry.create_reform
create_reform(parameters) ==
    [edits_baseline |-> EditsBaseline(parameters),
     baseline |-> BaselineBuilt(parameters),
     reform |-> ReformBuilt(parameters)]

\* self.microsimulation_type(reform): a new object, identified by its place in the heap
microsimulation_type(heap, built) == Append(heap, built)

(***************************************************************************)
(* The if / elif / else of create_microsimulations, lines 112-122: which   *)
(* branch a call takes, given its reform and the cache field it reads.     *)
(***************************************************************************)
\* TestBranch with a fault: the test of the cache field is inverted ("is not None")
TestBranch_Inverted(edits_baseline, cache) ==
    IF ~edits_baseline /\ cache # None THEN "build_default"
    ELSE IF edits_baseline THEN "build_edited"
    ELSE "read_cached"

TestBranch(edits_baseline, cache) ==
    IF ~edits_baseline /\ cache = None THEN "build_default"
    ELSE IF edits_baseline THEN "build_edited"
    ELSE "read_cached"

(***************************************************************************)
(* create_microsimulations, lines 112-122: the choice of the baseline.     *)
(* Returns the baseline, the cache field afterwards and the heap.          *)
(***************************************************************************)
\* ChooseBaseline with a fault: the edits_baseline branch stores what it builds
ChooseBaseline_StoresEdited(policy_reform, cache, heap) ==
    IF ~policy_reform.edits_baseline /\ cache = None
    THEN LET h == microsimulation_type(heap, DefaultBuilt)
         IN  [baseline |-> Len(h), cache |-> Len(h), heap |-> h]
    ELSE IF policy_reform.edits_baseline
    THEN LET h == microsimulation_type(heap, policy_reform.baseline)
         IN  [baseline |-> Len(h), cache |-> Len(h), heap |-> h]
    ELSE [baseline |-> cache, cache |-> cache, heap |-> heap]

\* ChooseBaseline with a fault: the cached baseline is never reused
ChooseBaseline_NoReuse(policy_reform, cache, heap) ==
    IF ~policy_reform.edits_baseline
    THEN LET h == microsimulation_type(heap, DefaultBuilt)
         IN  [baseline |-> Len(h), cache |-> Len(h), heap |-> h]
    ELSE LET h == microsimulation_type(heap, policy_reform.baseline)
         IN  [baseline |-> Len(h), cache |-> cache, heap |-> h]

ChooseBaseline(policy_reform, cache, heap) ==
    LET branch == TestBranch(policy_reform.edits_baseline, cache)
    IN  IF branch = "build_default"
        THEN LET h == microsimulation_type(heap, DefaultBuilt)
             IN  [baseline |-> Len(h), cache |-> Len(h), heap |-> h]
        ELSE IF branch = "build_edited"
        THEN LET h == microsimulation_type(heap, policy_reform.baseline)
             IN  [baseline |-> Len(h), cache |-> cache, heap |-> h]
        ELSE [baseline |-> cache, cache |-> cache, heap |-> heap]

\* PolicyEngineCountry.create_microsimulations, as one sequential call
create_microsimulations(parameters, cache, heap) ==
    LET policy_reform == create_reform(parameters)
        b == ChooseBaseline(policy_reform, cache, heap)
        h == microsimulation_type(b.heap, policy_reform.reform)
    IN  [baseline |-> b.baseline, reformed |-> Len(h), cache |-> b.cache, heap |-> h]

(***************************************************************************)
(* The parameter tree (reforms.py works on openfisca's ParameterNode):     *)
(*     root  .children  s -> scale,  r -> leaf "r"                         *)
(*     scale .brackets  [b0, b1]                                           *)
(*     b0    .children  r -> leaf "b0r"      b1 .children  r -> leaf "b1r" *)
(* A name is a sequence of characters; a path is a sequence of segments,   *)
(* the result of parameter.split(".").                                     *)
(***************************************************************************)
Chars == {"s", "r", "[", "]", "1"}
Digits == {"1"}

Leaves == {"r", "b0r", "b1r"}
Years == FirstYear..LastYear

\* node.children; a node without that attribute has no entry
Children(node) ==
    CASE node = "root" -> (<<"s">> :> "scale") @@ (<<"r">> :> "r")
      [] node = "b0"   -> (<<"r">> :> "b0r")
      [] node = "b1"   -> (<<"r">> :> "b1r")
      [] OTHER         -> << >>

\* node.brackets, a list (TLA+ sequences start at 1, Python lists at 0)
Brackets(node) ==
    IF node = "scale" THEN <<"b0", "b1">> ELSE << >>

InitParameters == [leaf \in Leaves |-> [y \in Years |-> 0]]

InitModifier ==
    [called |-> FALSE, outcome |-> "none", malformed |-> FALSE,
     default_period |-> FALSE, years |-> {}]

\* no household document, no calculate request
EmptyDocument == << >>
NoRequest == [document |-> << >>, simulation |-> << >>, outcome |-> "none"]

(***************************************************************************)
(* Initial state: PolicyEngineCountry.__init__                             *)
(***************************************************************************)
InitThread == [pc |-> "idle", params |-> {}, baseline |-> None, reformed |-> None]

Init ==
    /\ baseline_microsimulation = None
    /\ sims = <<>>
    /\ calls = <<>>
    /\ population_reform_recent_calls =
           [reform_only |-> <<10>>, reform_and_baseline |-> <<10>>]
    /\ last_reform_call = [n |-> 0, edits_baseline |-> FALSE,
                           before |-> [reform_only |-> <<10>>,
                                       reform_and_baseline |-> <<10>>]]
    /\ thread = [t \in 1..MaxThreads |-> InitThread]
    /\ parameter_tree = InitParameters
    /\ last_modifier = InitModifier
    /\ household = EmptyDocument
    /\ request = NoRequest

(***************************************************************************)
(* SpecBuild: sequential calls of create_microsimulations                  *)
(***************************************************************************)
CallCreateMicrosimulations ==
    /\ Len(calls) < MaxCalls
    /\ \E parameters \in ParamDicts :
          LET r == create_microsimulations(parameters, baseline_microsimulation, sims)
          IN  /\ baseline_microsimulation' = r.cache
              /\ sims' = r.heap
              /\ calls' = Append(calls,
                     [edits_baseline |-> EditsBaseline(parameters),
                      baseline |-> r.baseline,
                      reformed |-> r.reformed,
                      cache_before |-> baseline_microsimulation,
                      cache_after |-> r.cache,
                      heap_before |-> sims])
    /\ UNCHANGED <<population_reform_recent_calls, last_reform_call, thread,
                   parameter_tree, last_modifier, household, request>>

NextBuild == CallCreateMicrosimulations

SpecBuild == Init /\ [][NextBuild]_vars

\* call i is the first one whose reform has edits_baseline = false
IsFirstPlainCall(i) ==
    /\ ~calls[i].edits_baseline
    /\ \A k \in 1..(i - 1) : calls[k].edits_baseline

(***************************************************************************)
(* C1  Baseline reuse.  Every call with edits_baseline = false that comes  *)
(* after the first such call returns, as its baseline, the very instance   *)
(* the first such call built and stored, whatever edits_baseline = true    *)
(* calls happen in between.                                                *)
(***************************************************************************)
C1_BaselineReuse ==
    \A i \in 1..Len(calls) :
        IsFirstPlainCall(i) =>
            /\ calls[i].baseline \notin 1..Len(calls[i].heap_before)
            /\ calls[i].baseline # None
            /\ calls[i].cache_after = calls[i].baseline
            /\ sims[calls[i].baseline] = DefaultBuilt
            /\ \A j \in (i + 1)..Len(calls) :
                   ~calls[j].edits_baseline =>
                       /\ calls[j].baseline = calls[i].baseline
                       /\ calls[j].cache_before = calls[i].baseline
                       /\ calls[j].cache_after = calls[i].baseline

\* a plain call, then an editing call, then a plain call again
C1_Witness ==
    \E i, k, j \in 1..Len(calls) :
        /\ i < k /\ k < j
        /\ IsFirstPlainCall(i)
        /\ calls[k].edits_baseline
        /\ ~calls[j].edits_baseline
        /\ calls[j].baseline = calls[i].baseline

(***************************************************************************)
(* C2  Baseline invalidation.  A call with edits_baseline = true returns a *)
(* freshly built baseline (built from the reform's baseline edits) that is *)
(* not the cached instance and is not stored; the cache field has the same *)
(* value after the call as before, and no existing simulation object is    *)
(* changed.                                                                *)
(***************************************************************************)
C2_BaselineInvalidation ==
    \A i \in 1..Len(calls) :
        calls[i].edits_baseline =>
            /\ calls[i].baseline \notin 1..Len(calls[i].heap_before)
            /\ calls[i].baseline # None
            /\ calls[i].baseline # calls[i].cache_before
            /\ calls[i].baseline # calls[i].cache_after
            /\ calls[i].cache_after = calls[i].cache_before
            /\ sims[calls[i].baseline].policy = "policy_reform.baseline"
            /\ SubSeq(sims, 1, Len(calls[i].heap_before)) = calls[i].heap_before

\* an editing call made while a baseline is cached, and one made while none is
C2_Witness ==
    /\ \E i \in 1..Len(calls) :
          calls[i].edits_baseline /\ calls[i].cache_before # None
    /\ \E i \in 1..Len(calls) :
          calls[i].edits_baseline /\ calls[i].cache_before = None

(***************************************************************************)
(* SpecRace: create_microsimulations calls interleaved on one instance.    *)
(* A call is cut where another thread can run between its reads and        *)
(* writes of self.baseline_microsimulation: after the test of line 112,    *)
(* and between building a simulation and storing it.                       *)
(***************************************************************************)
Threads == 1..MaxThreads

\* line 111: the call starts and compiles its reform
Begin(t) ==
    /\ thread[t].pc = "idle"
    /\ \E parameters \in SingleKeyDicts :
          thread' = [thread EXCEPT ![t].pc = "test", ![t].params = parameters]
    /\ UNCHANGED <<baseline_microsimulation, sims, calls,
                   population_reform_recent_calls, last_reform_call,
                   parameter_tree, last_modifier, household, request>>

\* lines 112-115, 119, 121: the branch is chosen on the cache field as read now
Test(t) ==
    /\ thread[t].pc = "test"
    /\ thread' = [thread EXCEPT ![t].pc =
           TestBranch(create_reform(thread[t].params).edits_baseline,
                      baseline_microsimulation)]
    /\ UNCHANGED <<baseline_microsimulation, sims, calls,
                   population_reform_recent_calls, last_reform_call,
                   parameter_tree, last_modifier, household, request>>

\* line 118: self.microsimulation_type(self.default_reform), the long build
BuildDefault(t) ==
    /\ thread[t].pc = "build_default"
    /\ sims' = microsimulation_type(sims, DefaultBuilt)
    /\ thread' = [thread EXCEPT ![t].pc = "store", ![t].baseline = Len(sims')]
    /\ UNCHANGED <<baseline_microsimulation, calls,
                   population_reform_recent_calls, last_reform_call,
                   parameter_tree, last_modifier, household, request>>

\* lines 116-117: baseline = self.baseline_microsimulation = <the built object>
StoreDefault(t) ==
    /\ thread[t].pc = "store"
    /\ baseline_microsimulation' = thread[t].baseline
    /\ thread' = [thread EXCEPT ![t].pc = "build_reformed"]
    /\ UNCHANGED <<sims, calls, population_reform_recent_calls, last_reform_call,
                   parameter_tree, last_modifier, household, request>>

\* line 120: baseline = self.microsimulation_type(policy_reform.baseline)
BuildEdited(t) ==
    /\ thread[t].pc = "build_edited"
    /\ sims' = microsimulation_type(sims, create_reform(thread[t].params).baseline)
    /\ thread' = [thread EXCEPT ![t].pc = "build_reformed",
                                ![t].baseline = Len(sims')]
    /\ UNCHANGED <<baseline_microsimulation, calls,
                   population_reform_recent_calls, last_reform_call,
                   parameter_tree, last_modifier, household, request>>

\* line 122: baseline = self.baseline_microsimulation
ReadCached(t) ==
    /\ thread[t].pc = "read_cached"
    /\ thread' = [thread EXCEPT ![t].pc = "build_reformed",
                                ![t].baseline = baseline_microsimulation]
    /\ UNCHANGED <<baseline_microsimulation, sims, calls,
                   population_reform_recent_calls, last_reform_call,
                   parameter_tree, last_modifier, household, request>>

\* lines 123-124: reformed = self.microsimulation_type(policy_reform.reform); return
BuildReformed(t) ==
    /\ thread[t].pc = "build_reformed"
    /\ sims' = microsimulation_type(sims, create_reform(thread[t].params).reform)
    /\ thread' = [thread EXCEPT ![t].pc = "done", ![t].reformed = Len(sims')]
    /\ UNCHANGED <<baseline_microsimulation, calls,
                   population_reform_recent_calls, last_reform_call,
                   parameter_tree, last_modifier, household, request>>

NextRace ==
    \E t \in Threads :
        \/ Begin(t)
        \/ Test(t)
        \/ BuildDefault(t)
        \/ StoreDefault(t)
        \/ BuildEdited(t)
        \/ ReadCached(t)
        \/ BuildReformed(t)

SpecRace == Init /\ [][NextRace]_vars

\* the parts of C9 that are about one state
PlainThread(t) == ~EditsBaseline(thread[t].params)

C9_ReturnsDefaultBaseline ==
    \A t \in Threads :
        (thread[t].pc = "done" /\ PlainThread(t)) =>
            /\ thread[t].baseline # None
            /\ sims[thread[t].baseline] = DefaultBuilt

C9_CacheHoldsDefault ==
    ((\A t \in Threads : thread[t].pc = "done") /\ (\E t \in Threads : PlainThread(t)))
        => /\ baseline_microsimulation # None
           /\ sims[baseline_microsimulation] = DefaultBuilt

(***************************************************************************)
(* C9  Under any interleaving, every finished call with edits_baseline =   *)
(* false returns a non-empty baseline built from the default policy; once  *)
(* all calls have finished (one of them with edits_baseline = false) the   *)
(* cache holds a baseline built from the default policy; and once the      *)
(* cache is set it is never reset to empty.                                *)
(***************************************************************************)
C9_RacingBuilds ==
    /\ [](C9_ReturnsDefaultBaseline /\ C9_CacheHoldsDefault)
    /\ [][baseline_microsimulation # None => baseline_microsimulation' # None]_vars

\* all calls finished, two of them having each built a baseline of their own
C9_Witness ==
    /\ \A t \in Threads : thread[t].pc = "done"
    /\ \E t, u \in Threads :
          /\ PlainThread(t) /\ PlainThread(u)
          /\ thread[t].baseline # thread[u].baseline
          /\ sims[thread[t].baseline] = DefaultBuilt
          /\ sims[thread[u].baseline] = DefaultBuilt

(***************************************************************************)
(* SpecWindows: population_reform, lines 236-293.  One action is one       *)
(* execution of the handler's body.                                        *)
(***************************************************************************)
WindowLimit == 10

\* line 237: any(["baseline_" in param for param in params]), a substring test
ContainsBaseline(parameters) ==
    \E k \in parameters : \E i \in 1..Len(k) : k[i] = "baseline_"

\* list.pop(0)
PopFirst(window) == Tail(window)

\* lines 278-284: each window is trimmed if it holds more than the limit
TrimWindow(window) ==
    IF Len(window) > WindowLimit THEN PopFirst(window) ELSE window

\* lines 278-292: both windows trimmed, then the elapsed time appended to one
RecordCall(windows, edits_baseline, elapsed) ==
    LET reform_only == TrimWindow(windows.reform_only)
        reform_and_baseline == TrimWindow(windows.reform_and_baseline)
    IN  IF edits_baseline
        THEN [reform_only |-> reform_only,
              reform_and_baseline |-> Append(reform_and_baseline, elapsed)]
        ELSE [reform_only |-> Append(reform_only, elapsed),
              reform_and_baseline |-> reform_and_baseline]

\* the simulations a finished handler no longer refers to are dropped; what
\* self.baseline_microsimulation refers to stays
Retained(heap, cache) == SubSeq(heap, 1, cache)

PopulationReform ==
    /\ last_reform_call.n < MaxReformCalls
    /\ \E parameters \in ParamDicts, elapsed \in 1..MaxDuration :
          LET edits_baseline == ContainsBaseline(parameters)
              r == create_microsimulations(parameters, baseline_microsimulation, sims)
          IN  /\ baseline_microsimulation' = r.cache
              /\ sims' = Retained(r.heap, r.cache)
              /\ population_reform_recent_calls' =
                     RecordCall(population_reform_recent_calls, edits_baseline, elapsed)
              /\ last_reform_call' = [n |-> last_reform_call.n + 1,
                                      edits_baseline |-> edits_baseline,
                                      before |-> population_reform_recent_calls]
    /\ UNCHANGED <<calls, thread, parameter_tree, last_modifier, household, request>>

NextWindows == PopulationReform

SpecWindows == Init /\ [][NextWindows]_vars

(***************************************************************************)
(* C3  After every completed population_reform call both latency windows   *)
(* hold at most 10 entries.                                                *)
(***************************************************************************)
C3_WindowsAtMostTen ==
    /\ Len(population_reform_recent_calls.reform_only) <= 10
    /\ Len(population_reform_recent_calls.reform_and_baseline) <= 10

(***************************************************************************)
(* C10  A population_reform call changes only the latency window of its    *)
(* own kind: a reform-only call leaves the reform_and_baseline window      *)
(* unchanged, a reform-and-baseline call leaves the reform_only window     *)
(* unchanged.                                                              *)
(***************************************************************************)
C10_OtherWindowUnchanged ==
    last_reform_call.n > 0 =>
        IF last_reform_call.edits_baseline
        THEN population_reform_recent_calls.reform_only
                 = last_reform_call.before.reform_only
        ELSE population_reform_recent_calls.reform_and_baseline
                 = last_reform_call.before.reform_and_baseline

(***************************************************************************)
(* SpecParam: parametric(parameter, value, period).modifier_fn,            *)
(* reforms.py lines 73-107                                                 *)
(***************************************************************************)
\* line 74: the default of the period argument, "year:2015:20", by its fields
DefaultUnit == "year"
DefaultStart == 2015
DefaultSize == 20
DefaultPeriod == <<DefaultUnit, DefaultStart, DefaultSize>>

\* the years of a period string unit:start:size, as node.update reads it
PeriodYears(period) ==
    IF period[1] = "year"
    THEN {y \in Years : period[2] <= y /\ y <= period[2] + period[3] - 1}
    ELSE {}

\* str.split("["): the pieces between the occurrences of "["
RECURSIVE SplitBracket(_, _)
SplitBracket(seg, piece) ==
    IF seg = << >> THEN <<piece>>
    ELSE IF Head(seg) = "["
         THEN <<piece>> \o SplitBracket(Tail(seg), << >>)
         ELSE SplitBracket(Tail(seg), Append(piece, Head(seg)))

\* index[:-1]
DropLast(str) == IF str = << >> THEN << >> ELSE SubSeq(str, 1, Len(str) - 1)

\* int(str): -1 stands for the ValueError of a string that is no number
RECURSIVE IntOf(_, _)
IntOf(str, acc) ==
    IF str = << >> THEN acc
    ELSE IF Head(str) = "1" THEN IntOf(Tail(str), 10 * acc + 1)
    ELSE -1

int(str) == IF str = << >> THEN -1 ELSE IntOf(str, 0)

\* lines 98-101: the inner handler turns whatever was raised into this error
InnerExcept(raised) == "Invalid bracket syntax"

\* lines 102-105: the outer handler turns whatever was raised into this error
OuterExcept(raised) == "Could not find the parameter"

\* lines 95-97, the body of the inner try: the node reached, or what is raised
BracketStep(node, seg) ==
    LET parts == SplitBracket(seg, << >>)
    IN  IF Len(parts) # 2 THEN [raised |-> "ValueError", node |-> node]
        ELSE LET name == parts[1]
                 index == int(DropLast(parts[2]))
             IN  IF index < 0 THEN [raised |-> "ValueError", node |-> node]
                 ELSE IF name \notin DOMAIN Children(node)
                 THEN [raised |-> "KeyError", node |-> node]
                 ELSE IF index + 1 > Len(Brackets(Children(node)[name]))
                 THEN [raised |-> "IndexError", node |-> node]
                 ELSE [raised |-> "", node |-> Brackets(Children(node)[name])[index + 1]]

\* lines 90-105, one turn of the loop: the node reached, or the error that leaves it
Descend(node, seg) ==
    LET inner ==
            IF \A i \in 1..Len(seg) : seg[i] # "["
            THEN IF seg \in DOMAIN Children(node)
                 THEN [raised |-> "", node |-> Children(node)[seg]]
                 ELSE [raised |-> "KeyError", node |-> node]
            ELSE LET step == BracketStep(node, seg)
                 IN  IF step.raised = "" THEN step
                     ELSE [raised |-> InnerExcept(step.raised), node |-> node]
    IN  IF inner.raised = "" THEN inner
        ELSE [raised |-> OuterExcept(inner.raised), node |-> node]

\* lines 88-105: the loop over parameter.split(".")
RECURSIVE Resolve(_, _)
Resolve(node, path) ==
    IF path = << >> THEN [raised |-> "", node |-> node]
    ELSE LET step == Descend(node, Head(path))
         IN  IF step.raised # "" THEN step ELSE Resolve(step.node, Tail(path))

\* a segment of the form name[integer]
WellFormedBracket(seg) ==
    \E k \in 2..(Len(seg) - 2) :
        /\ seg[k] = "["
        /\ seg[Len(seg)] = "]"
        /\ \A i \in 1..(k - 1) : seg[i] \notin {"[", "]"}
        /\ \A i \in (k + 1)..(Len(seg) - 1) : seg[i] \in Digits

Malformed(seg) ==
    /\ \E i \in 1..Len(seg) : seg[i] = "["
    /\ ~WellFormedBracket(seg)

\* whether the resolution gets to a malformed segment (the ones before it resolve)
RECURSIVE ReachesMalformed(_, _)
ReachesMalformed(node, path) ==
    IF path = << >> THEN FALSE
    ELSE \/ Malformed(Head(path))
         \/ LET step == Descend(node, Head(path))
            IN  step.raised = "" /\ ReachesMalformed(step.node, Tail(path))

SegmentsUpTo(n) == UNION { [1..k -> Chars] : k \in 1..n }

Paths ==
    { <<a>> : a \in SegmentsUpTo(MaxSegLen) }
        \cup { <<a, b>> : a \in SegmentsUpTo(MaxSegLen), b \in SegmentsUpTo(MaxTailLen) }

ExplicitPeriods == { <<"year", 2030, 10>> }

\* line 106: node.update(period=period, value=value) on the node reached
Update(tree, leaf, period, value) ==
    [tree EXCEPT ![leaf] =
        [y \in Years |-> IF y \in PeriodYears(period) THEN value ELSE tree[leaf][y]]]

\* modifier_fn of parametric(parameter, value[, period]); omitted: no period given
ModifierFn ==
    \E path \in Paths, value \in 1..MaxValue, omitted \in BOOLEAN,
       given \in ExplicitPeriods :
        LET period == IF omitted THEN DefaultPeriod ELSE given
            found == Resolve("root", path)
            outcome == IF found.raised # "" THEN found.raised
                       ELSE IF found.node \in Leaves THEN "ok"
                       ELSE "AttributeError"
        IN  /\ parameter_tree' = IF outcome = "ok"
                             THEN Update(parameter_tree, found.node, period, value)
                             ELSE parameter_tree
            /\ last_modifier' =
                   [called |-> TRUE,
                    outcome |-> outcome,
                    malformed |-> ReachesMalformed("root", path),
                    default_period |-> omitted,
                    years |-> IF outcome = "ok" THEN PeriodYears(period) ELSE {}]
            /\ UNCHANGED <<baseline_microsimulation, sims, calls,
                           population_reform_recent_calls, last_reform_call, thread,
                           household, request>>

NextParam == ModifierFn

SpecParam == Init /\ [][NextParam]_vars

(***************************************************************************)
(* C6  Resolving a path with a segment that contains "[" but is not of the *)
(* form name[integer] fails with the invalid-bracket-syntax error, which   *)
(* reaches the caller as an outcome of its own, not as parameter-not-found.*)
(***************************************************************************)
C6_InvalidSyntaxReported ==
    (last_modifier.called /\ last_modifier.malformed)
        => last_modifier.outcome = "Invalid bracket syntax"

(***************************************************************************)
(* C7  A parametric edit built without an explicit period sets the value   *)
(* for the span 2015 through 2025 and for no year outside that span.       *)
(***************************************************************************)
C7_DefaultTenYears ==
    (last_modifier.outcome = "ok" /\ last_modifier.default_period)
        => /\ \A y \in last_modifier.years : 2015 <= y /\ y <= 2025
           /\ \A y \in 2015..2024 : y \in last_modifier.years

(***************************************************************************)
(* SpecCalc: calculate, country.py lines 164-216.                          *)
(*                                                                         *)
(* A household document is a nested mapping.  It is held as the function   *)
(* from the paths of its leaves to the leaves; a leaf is a record of one   *)
(* shape whose kind says which of its fields is meant.                     *)
(***************************************************************************)
Leaf(kind, num, text, items, key) ==
    [kind |-> kind, num |-> num, text |-> text, items |-> items, key |-> key]

Null == Leaf("null", 0, "", << >>, "")
IntLeaf(n) == Leaf("int", n, "", << >>, "")
FloatLeaf(n) == Leaf("float", n, "", << >>, "")
TextLeaf(t) == Leaf("str", 0, t, << >>, "")
ListLeaf(items) == Leaf("list", 0, "", items, "")
\* the one-entry mapping {key: n}
DictLeaf(key, n) == Leaf("dict", n, "", << >>, key)

\* a value the caller has filled in
Given == IntLeaf(5)

\* the paths a document of the model may hold, in the key order of the document
CandidateOrder ==
    << <<"people", "1", "income", "2023">>,
       <<"people", "1", "bogus", "2023">>,
       <<"people", "1", "income", "never">>,
       <<"aliens", "1", "income", "2023">>,
       <<"people", "2", "income", "2023">>,
       <<"people", "1", "tax", "2023">>,
       <<"people", "2", "age">>,
       <<"households", "h", "members", "0", "x">> >>

Rank(path) == CHOOSE i \in 1..Len(CandidateOrder) : CandidateOrder[i] = path

\* what each candidate path may hold; "absent" leaves the path out
Fillings(path) ==
    IF Len(path) = 4 /\ path \notin { <<"people", "1", "income", "2023">>,
                                      <<"people", "2", "income", "2023">> }
        THEN {"absent", "null"}
    ELSE IF Len(path) = 5 THEN {"absent", "null"}
    ELSE {"absent", "null", "given"}

Documents ==
    { [p \in {q \in DOMAIN f : f[q] # "absent"} |->
           IF f[p] = "null" THEN Null ELSE Given] :
      f \in { g \in [{CandidateOrder[i] : i \in 1..Len(CandidateOrder)}
                        -> {"absent", "null", "given"}] :
                  \A q \in DOMAIN g : g[q] \in Fillings(q) } }

(***************************************************************************)
(* The tax-benefit system and the simulation built from the document       *)
(* (lines 170-180) are the engine's; here they are data: the declared      *)
(* value type of each variable, the array each variable computes to (one   *)
(* cell per entity, in the order of the entity's ids), and the shape of a  *)
(* cell of an array of no special type.                                    *)
(***************************************************************************)
KnownVariables == {"income", "tax"}
KnownEntities == {"people"}
KnownPeriods == {"2023"}
ValueTypes == {"Enum", "float", "str", "other"}
EntityIds == <<"1", "2">>
EnumNames == <<"LOW", "HIGH">>
Texts == <<"a", "b">>
RawRows == { <<0, 1>>, <<1, 1>> }

TruncationLimit == 2000

CellShapes ==
    {[is_list |-> FALSE, len |-> 0]}
        \cup {[is_list |-> TRUE, len |-> n] :
                 n \in {2, TruncationLimit, TruncationLimit + 1}}

Simulations ==
    [value_type : [KnownVariables -> ValueTypes],
     result : [KnownVariables -> RawRows],
     cell : CellShapes]

\* population.get_index(entity_id): the place of the id among the entity's ids
\* in the document, counted from 0
EntityIndex(document, entity_plural, entity_id) ==
    LET present == {p[2] : p \in {q \in DOMAIN document : q[1] = entity_plural}}
        place(id) == CHOOSE i \in 1..Len(EntityIds) : EntityIds[i] = id
    IN  Cardinality({id \in present : place(id) < place(entity_id)})

\* str(x) of a float cell, as characters, and float(...) of such a string
StrOfFloat(n) == <<IF n = 0 THEN "0" ELSE "1", ".", "0">>
FloatOfStr(str) == IF str[1] = "0" THEN 0 ELSE 1

\* lines 182-187: dpath.util.search(household, "*/*/*/*", afilter=is None, yielded=True)
search(document) ==
    {p \in DOMAIN document : Len(p) = 4 /\ document[p] = Null}

\* lines 193-196: what makes the engine raise for one requested computation
Raises(path) ==
    \/ path[3] \notin KnownVariables
    \/ path[4] \notin KnownPeriods
    \/ path[1] \notin KnownEntities

\* lines 193-205: the value extracted for one requested computation
EntityResult(document, simulation, path) ==
    LET variable_name == path[3]
        entity_index == EntityIndex(document, path[1], path[2])
        cell == simulation.result[variable_name][entity_index + 1]
        value_type == simulation.value_type[variable_name]
    IN  CASE value_type = "Enum"  -> TextLeaf(EnumNames[cell + 1])
          [] value_type = "float" -> FloatLeaf(FloatOfStr(StrOfFloat(cell)))
          [] value_type = "str"   -> TextLeaf(Texts[cell + 1])
          [] OTHER -> IF simulation.cell.is_list
                      THEN ListLeaf([i \in 1..simulation.cell.len |-> cell + i])
                      ELSE IntLeaf(cell)

\* Truncate with a fault: the collapse starts at the limit itself
Truncate_AtLimit(entity_result, period) ==
    IF entity_result.kind = "list" /\ Len(entity_result.items) >= TruncationLimit
    THEN DictLeaf(period, entity_result.items[Len(entity_result.items)])
    ELSE entity_result

\* lines 209-210
Truncate(entity_result, period) ==
    IF entity_result.kind = "list" /\ Len(entity_result.items) > TruncationLimit
    THEN DictLeaf(period, entity_result.items[Len(entity_result.items)])
    ELSE entity_result

\* line 212: dpath.util.new(computation_results, path, entity_result)
new(computation_results, path, entity_result) ==
    [q \in DOMAIN computation_results \cup {path} |->
        IF q = path THEN entity_result ELSE computation_results[q]]

\* merge with a fault: each top-level key of src replaces that of dst, as dict.update does
merge_Update(dst, src) ==
    [q \in {d \in DOMAIN dst : \A r \in DOMAIN src : r[1] # d[1]} \cup DOMAIN src |->
        IF q \in DOMAIN src THEN src[q] ELSE dst[q]]

\* line 214: dpath.util.merge(dst, src), a deep merge of src into dst
merge(dst, src) ==
    [q \in DOMAIN dst \cup DOMAIN src |->
        IF q \in DOMAIN src THEN src[q] ELSE dst[q]]

\* lines 190-212: the loop over the requested computations, in document order;
\* it ends when a computation raises
RECURSIVE Walk(_, _, _, _)
Walk(document, simulation, todo, computation_results) ==
    IF todo = {} THEN [raised |-> FALSE, computation_results |-> computation_results]
    ELSE LET path == CHOOSE p \in todo : \A q \in todo : Rank(p) <= Rank(q)
         IN  IF Raises(path)
             THEN [raised |-> TRUE, computation_results |-> computation_results]
             ELSE Walk(document, simulation, todo \ {path},
                       new(computation_results, path,
                           Truncate(EntityResult(document, simulation, path), path[4])))

\* calculate with a fault: the results are merged into the document even when the loop raised
calculate_MergesPartial(document, simulation) ==
    LET walked == Walk(document, simulation, search(document), << >>)
    IN  [outcome |-> IF walked.raised THEN "raised" ELSE "returned",
         household |-> merge(document, walked.computation_results)]

\* lines 182-216: the document after the call, and whether the call returned
calculate(document, simulation) ==
    LET walked == Walk(document, simulation, search(document), << >>)
    IN  IF walked.raised
        THEN [outcome |-> "raised", household |-> document]
        ELSE [outcome |-> "returned",
              household |-> merge(document, walked.computation_results)]

\* a request arrives: its document, and the simulation built for it
InitCalc ==
    /\ baseline_microsimulation = None
    /\ sims = << >>
    /\ calls = << >>
    /\ population_reform_recent_calls =
           [reform_only |-> <<10>>, reform_and_baseline |-> <<10>>]
    /\ last_reform_call = [n |-> 0, edits_baseline |-> FALSE,
                           before |-> [reform_only |-> <<10>>,
                                       reform_and_baseline |-> <<10>>]]
    /\ thread = [t \in 1..MaxThreads |-> InitThread]
    /\ parameter_tree = InitParameters
    /\ last_modifier = InitModifier
    /\ household \in Documents
    /\ \E simulation \in Simulations :
          request = [document |-> household, simulation |-> simulation,
                     outcome |-> "none"]

Calculate ==
    /\ request.outcome = "none"
    /\ LET r == calculate(household, request.simulation)
       IN  /\ household' = r.household
           /\ request' = [request EXCEPT !.outcome = r.outcome]
    /\ UNCHANGED <<baseline_microsimulation, sims, calls,
                   population_reform_recent_calls, last_reform_call, thread,
                   parameter_tree, last_modifier>>

NextCalc == Calculate

SpecCalc == InitCalc /\ [][NextCalc]_vars

(***************************************************************************)
(* C4  calculate leaves every non-null leaf of the household document      *)
(* identical and drops no key: the returned document has exactly the keys  *)
(* of the input, every non-null leaf keeps its value, every null leaf at   *)
(* depth exactly 4 is replaced by the value computed for its entity,       *)
(* variable and period, and a null at any other depth stays null.          *)
(***************************************************************************)
C4_FillKeepsStructure ==
    request.outcome = "returned" =>
        /\ DOMAIN household = DOMAIN request.document
        /\ \A p \in DOMAIN request.document :
              IF request.document[p] # Null
              THEN household[p] = request.document[p]
              ELSE IF Len(p) = 4
              THEN /\ household[p] # Null
                   /\ household[p] =
                          Truncate(EntityResult(request.document,
                                                request.simulation, p), p[4])
              ELSE household[p] = Null

\* a returned call on a document with a filled-in leaf, a null at depth 4 and
\* nulls at depths 3 and 5
C4_Witness ==
    /\ request.outcome = "returned"
    /\ \E p \in DOMAIN request.document :
          Len(p) = 4 /\ request.document[p] = Null /\ household[p] # Null
    /\ \E p \in DOMAIN request.document :
          Len(p) = 4 /\ request.document[p] = Given /\ household[p] = Given
    /\ \E p \in DOMAIN request.document :
          Len(p) = 3 /\ request.document[p] = Null /\ household[p] = Null
    /\ \E p \in DOMAIN request.document :
          Len(p) = 5 /\ request.document[p] = Null /\ household[p] = Null

(***************************************************************************)
(* C5  Truncation policy: an extracted result that is a sequence of length *)
(* n is replaced by the one-entry mapping {period: last element} exactly   *)
(* when n > 2000; a sequence of length 2001 is collapsed, a sequence of    *)
(* length 2000 or less and every other result is written back as it is.    *)
(***************************************************************************)
C5_TruncationPolicy ==
    request.outcome = "returned" =>
        \A p \in search(request.document) :
            LET extracted == EntityResult(request.document, request.simulation, p)
                n == Len(extracted.items)
            IN  IF extracted.kind = "list" /\ n > 2000
                THEN household[p] = DictLeaf(p[4], extracted.items[n])
                ELSE household[p] = extracted

\* one call that collapsed a sequence of 2001 elements
C5_Witness ==
    /\ request.outcome = "returned"
    /\ \E p \in search(request.document) :
          LET extracted == EntityResult(request.document, request.simulation, p)
          IN  /\ extracted.kind = "list"
              /\ Len(extracted.items) = 2001
              /\ household[p] = DictLeaf(p[4], extracted.items[2001])

(***************************************************************************)
(* C8  The walker does not partially apply: if computing one of the        *)
(* requested null leaves fails, calculate aborts and the household         *)
(* document is unchanged from the input, every requested leaf still null.  *)
(***************************************************************************)
C8_NoPartialApplication ==
    request.outcome = "raised" =>
        /\ household = request.document
        /\ \A p \in search(request.document) : household[p] = Null

\* a call that raised after it had computed the value of an earlier leaf
C8_Witness ==
    /\ request.outcome = "raised"
    /\ household = request.document
    /\ \E p, q \in search(request.document) :
          /\ Rank(p) < Rank(q)
          /\ ~Raises(p)
          /\ Raises(q)

=============================================================================
